---- MODULE Spec2Model ----
(***************************************************************************)
(* Limit order book of src/orderbook: OrderBook with its two side indices  *)
(* (bids_, asks_), the order index (order_lookup_) and the node pool       *)
(* (order_pool_).  Each public operation is one atomic action; the helper  *)
(* methods are operators over a record of the book's four members.         *)
(*                                                                         *)
(* Prices are tick-aligned finite values used as exact map keys (small     *)
(* integers here).  Quantities and level totals are unsigned integers of   *)
(* QuantityBits bits, so every addition and subtraction on a total wraps   *)
(* modulo Modulus as uint64_t does.  Order::timestamp_ns is stored and     *)
(* never read by any operation; it is left out of the node.                *)
(***************************************************************************)
EXTENDS Integers, Sequences, FiniteSets, TLC

\* ---- bounds of the model ----
MaxIds == 3
MaxPrice == 2
\* width of quantity / total_quantity_ (uint64_t in the source, scaled down)
QuantityBits == 2
\* slots per pool block (4096 in the source, scaled down)
BlockSize == 2
\* orders the pool is asked to construct in one run
MaxOrders == 3
\* largest depth asked of get_snapshot
MaxDepth == 3
\* orders the pool is asked to construct in one run taken step by step
MaxStepOrders == 2

Modulus == 2 ^ QuantityBits
Ids == 1 .. MaxIds
Prices == 1 .. MaxPrice
\* quantities submitted by add_order (positive) and by amend_order (any)
AddQuantities == {1, Modulus - 1}
AmendQuantities == {0} \cup AddQuantities

VARIABLES bids_, asks_, order_lookup_, order_pool_, ret, path, call

vars == <<bids_, asks_, order_lookup_, order_pool_, ret, path, call>>

\* call: the public member function being executed and its locals, when the
\* operations are taken one internal step at a time; Idle between calls
Idle == [pc |-> "idle"]

\* ---- finite maps ----
EmptyMap == [k \in {} |-> 0]
MapPut(m, k, v) == [x \in (DOMAIN m) \cup {k} |-> IF x = k THEN v ELSE m[x]]
MapErase(m, k) == [x \in (DOMAIN m) \ {k} |-> m[x]]

RECURSIVE SeqSum(_), IterationOrder(_, _), IterationOrder_Ascending(_, _),
          SnapshotLoop(_, _, _, _, _)
SeqSum(s) == IF s = << >> THEN 0 ELSE Head(s) + SeqSum(Tail(s))

Range(s) == {s[i] : i \in DOMAIN s}

\* ---- Order / OrderNode ----
Order(id, buy, p, q) == [order_id |-> id, is_buy |-> buy, price |-> p, quantity |-> q]
OrderNode(o) == [order |-> o]

\* ---- MemoryPool<OrderNode, BlockSize> ----
\* address of slot `slot` of the block number `block` (blocks counted from 1)
Addr(block, slot) == (block - 1) * BlockSize + slot

MemoryPool == [blocks_ |-> 1, current_slot_ |-> 0, mem |-> EmptyMap, destroyed |-> {}]

allocate_block(pool) == [pool EXCEPT !.blocks_ = @ + 1, !.current_slot_ = 0]

\* the slot counter is not advanced: the next construct is handed the same slot
construct_SameSlot(pool, o) ==
    LET ptr == Addr(pool.blocks_, pool.current_slot_)
    IN  [pool |-> [pool EXCEPT !.mem = MapPut(@, ptr, OrderNode(o))], ptr |-> ptr]

\* the pool after construct(order) and the pointer it returns
construct(pool, o) ==
    LET grown == IF pool.current_slot_ >= BlockSize THEN allocate_block(pool) ELSE pool
        ptr == Addr(grown.blocks_, grown.current_slot_)
    IN  [pool |-> [grown EXCEPT !.current_slot_ = @ + 1,
                                !.mem = MapPut(@, ptr, OrderNode(o))],
         ptr |-> ptr]

\* destroy runs the destructor only: the slot is not handed out again
destroy(pool, ptr) ==
    [pool EXCEPT !.mem = MapErase(@, ptr), !.destroyed = @ \cup {ptr}]

\* number of nodes constructed so far; the model stops constructing at MaxOrders
Constructed(pool) == Addr(pool.blocks_, pool.current_slot_)
CanConstruct(pool) == Constructed(pool) < MaxOrders

\* ---- PriceLevelQueue ----
PriceLevelQueue == [orders_ |-> << >>, total_quantity_ |-> 0]

\* the node is linked at the head of the list
PriceLevelQueue_add_order_AtFront(level, node, q) ==
    [orders_ |-> <<node>> \o level.orders_,
     total_quantity_ |-> (level.total_quantity_ + q) % Modulus]

PriceLevelQueue_add_order(level, node, q) ==
    [orders_ |-> Append(level.orders_, node),
     total_quantity_ |-> (level.total_quantity_ + q) % Modulus]

\* the node is unlinked but its quantity stays in the total
PriceLevelQueue_remove_order_KeepsTotal(level, node, q) ==
    [orders_ |-> SelectSeq(level.orders_, LAMBDA n : n # node),
     total_quantity_ |-> level.total_quantity_]

\* the total is reduced but the node stays linked
PriceLevelQueue_remove_order_KeepsNode(level, node, q) ==
    [orders_ |-> level.orders_,
     total_quantity_ |-> (level.total_quantity_ + Modulus - q) % Modulus]

PriceLevelQueue_remove_order(level, node, q) ==
    [orders_ |-> SelectSeq(level.orders_, LAMBDA n : n # node),
     total_quantity_ |-> (level.total_quantity_ + Modulus - q) % Modulus]

update_quantity(level, old_qty, new_qty) ==
    [level EXCEPT !.total_quantity_ = (@ + Modulus - old_qty + new_qty) % Modulus]

\* a level is never reported empty
is_empty_Never(level) == FALSE

is_empty(level) == level.orders_ = << >>

\* ---- OrderBook ----
\* the members of the book as one value
Book == [bids_ |-> bids_, asks_ |-> asks_, order_lookup_ |-> order_lookup_,
         order_pool_ |-> order_pool_]

NodeOrder(b, node) == b.order_pool_.mem[node].order

\* std::map::operator[] : the level at the key, default-constructed when absent
LevelAt(side, price) == IF price \in DOMAIN side THEN side[price] ELSE PriceLevelQueue

\* every node is filed under bids_, whatever its side
add_to_side_AlwaysBids(b, node) ==
    LET o == NodeOrder(b, node)
    IN  [b EXCEPT !.bids_ = MapPut(@, o.price,
            PriceLevelQueue_add_order(LevelAt(@, o.price), node, o.quantity))]

\* an incoming order that crosses the opposite side trades: the opposite levels
\* at crossing prices are taken out and the incoming order does not rest
add_to_side_Matches(b, node) ==
    LET o == NodeOrder(b, node)
        opposite == IF o.is_buy THEN b.asks_ ELSE b.bids_
        crossed == {p \in DOMAIN opposite : IF o.is_buy THEN p <= o.price ELSE p >= o.price}
        rest == [p \in (DOMAIN opposite) \ crossed |-> opposite[p]]
    IN  IF crossed # {}
        THEN IF o.is_buy THEN [b EXCEPT !.asks_ = rest] ELSE [b EXCEPT !.bids_ = rest]
        ELSE IF o.is_buy
        THEN [b EXCEPT !.bids_ = MapPut(@, o.price,
                  PriceLevelQueue_add_order(LevelAt(@, o.price), node, o.quantity))]
        ELSE [b EXCEPT !.asks_ = MapPut(@, o.price,
                  PriceLevelQueue_add_order(LevelAt(@, o.price), node, o.quantity))]

add_to_side(b, node) ==
    LET o == NodeOrder(b, node)
    IN  IF o.is_buy
        THEN [b EXCEPT !.bids_ = MapPut(@, o.price,
                  PriceLevelQueue_add_order(LevelAt(@, o.price), node, o.quantity))]
        ELSE [b EXCEPT !.asks_ = MapPut(@, o.price,
                  PriceLevelQueue_add_order(LevelAt(@, o.price), node, o.quantity))]

\* one side index after remove_from_side's find / remove_order / erase-if-empty
RemoveFromMap(side, price, node, q) ==
    IF price \in DOMAIN side
    THEN LET level == PriceLevelQueue_remove_order(side[price], node, q)
         IN  IF is_empty(level) THEN MapErase(side, price)
                                ELSE MapPut(side, price, level)
    ELSE side

remove_from_side(b, node) ==
    LET o == NodeOrder(b, node)
    IN  IF o.is_buy
        THEN [b EXCEPT !.bids_ = RemoveFromMap(@, o.price, node, o.quantity)]
        ELSE [b EXCEPT !.asks_ = RemoveFromMap(@, o.price, node, o.quantity)]

\* only the price is written
SetOrder_KeepsQuantity(b, node, p, q) ==
    [b EXCEPT !.order_pool_.mem[node].order.price = p]

SetOrder(b, node, p, q) ==
    [b EXCEPT !.order_pool_.mem[node].order.price = p,
              !.order_pool_.mem[node].order.quantity = q]

\* no lookup of the id before the node is constructed
add_order_NoDuplicateCheck(b, o) ==
    LET c == construct(b.order_pool_, o)
        b1 == [b EXCEPT !.order_pool_ = c.pool]
        b2 == add_to_side(b1, c.ptr)
    IN  [book |-> [b2 EXCEPT !.order_lookup_ = MapPut(@, o.order_id, c.ptr)],
         ret |-> FALSE, path |-> "add_accepted"]

\* add_order(o): the book afterwards and the branch taken
add_order(b, o) ==
    IF o.order_id \in DOMAIN b.order_lookup_
    THEN [book |-> b, ret |-> FALSE, path |-> "add_duplicate"]
    ELSE LET c == construct(b.order_pool_, o)
             b1 == [b EXCEPT !.order_pool_ = c.pool]
             b2 == add_to_side(b1, c.ptr)
         IN  [book |-> [b2 EXCEPT !.order_lookup_ = MapPut(@, o.order_id, c.ptr)],
              ret |-> FALSE, path |-> "add_accepted"]

\* true is returned whether or not the id was found
cancel_order_AlwaysTrue(b, order_id) ==
    IF order_id \notin DOMAIN b.order_lookup_
    THEN [book |-> b, ret |-> TRUE, path |-> "cancel_notfound"]
    ELSE LET node == b.order_lookup_[order_id]
             b1 == remove_from_side(b, node)
             b2 == [b1 EXCEPT !.order_lookup_ = MapErase(@, order_id)]
         IN  [book |-> [b2 EXCEPT !.order_pool_ = destroy(@, node)],
              ret |-> TRUE, path |-> "cancel_done"]

\* the id is left in the order index
cancel_order_KeepsIndex(b, order_id) ==
    IF order_id \notin DOMAIN b.order_lookup_
    THEN [book |-> b, ret |-> FALSE, path |-> "cancel_notfound"]
    ELSE LET node == b.order_lookup_[order_id]
             b1 == remove_from_side(b, node)
         IN  [book |-> [b1 EXCEPT !.order_pool_ = destroy(@, node)],
              ret |-> TRUE, path |-> "cancel_done"]

\* cancel_order(order_id): the book afterwards, the value returned, the branch
cancel_order(b, order_id) ==
    IF order_id \notin DOMAIN b.order_lookup_
    THEN [book |-> b, ret |-> FALSE, path |-> "cancel_notfound"]
    ELSE LET node == b.order_lookup_[order_id]
             b1 == remove_from_side(b, node)
             b2 == [b1 EXCEPT !.order_lookup_ = MapErase(@, order_id)]
         IN  [book |-> [b2 EXCEPT !.order_pool_ = destroy(@, node)],
              ret |-> TRUE, path |-> "cancel_done"]

\* a change of quantity alone is handled as a change of price
AmendPath_AnyChangeMoves(b, order_id, new_price, new_quantity) ==
    IF order_id \notin DOMAIN b.order_lookup_ THEN "amend_notfound"
    ELSE LET o == NodeOrder(b, b.order_lookup_[order_id])
         IN  IF o.price # new_price \/ o.quantity # new_quantity
             THEN "amend_price" ELSE "amend_nochange"

\* a new quantity of zero is refused like an unknown id
AmendPath_ZeroQuantityRejected(b, order_id, new_price, new_quantity) ==
    IF order_id \notin DOMAIN b.order_lookup_ \/ new_quantity = 0 THEN "amend_notfound"
    ELSE LET o == NodeOrder(b, b.order_lookup_[order_id])
             side == IF o.is_buy THEN b.bids_ ELSE b.asks_
         IN  IF o.price # new_price THEN "amend_price"
             ELSE IF o.quantity # new_quantity /\ o.price \in DOMAIN side
                  THEN "amend_quantity"
                  ELSE "amend_nochange"

\* the branch amend_order(order_id, new_price, new_quantity) takes
AmendPath(b, order_id, new_price, new_quantity) ==
    IF order_id \notin DOMAIN b.order_lookup_ THEN "amend_notfound"
    ELSE LET o == NodeOrder(b, b.order_lookup_[order_id])
             side == IF o.is_buy THEN b.bids_ ELSE b.asks_
         IN  IF o.price # new_price THEN "amend_price"
             ELSE IF o.quantity # new_quantity /\ o.price \in DOMAIN side
                  THEN "amend_quantity"
                  ELSE "amend_nochange"

\* amend_order(order_id, new_price, new_quantity)
amend_order(b, order_id, new_price, new_quantity) ==
    LET branch == AmendPath(b, order_id, new_price, new_quantity)
    IN  IF branch = "amend_notfound"
        THEN [book |-> b, ret |-> FALSE, path |-> branch]
        ELSE IF branch = "amend_price"
        THEN LET node == b.order_lookup_[order_id]
                 b1 == remove_from_side(b, node)
                 b2 == SetOrder(b1, node, new_price, new_quantity)
             IN  [book |-> add_to_side(b2, node), ret |-> TRUE, path |-> branch]
        ELSE IF branch = "amend_quantity"
        THEN LET node == b.order_lookup_[order_id]
                 o == NodeOrder(b, node)
                 b1 == SetOrder(b, node, o.price, new_quantity)
             IN  [book |-> IF o.is_buy
                           THEN [b1 EXCEPT !.bids_[o.price] =
                                    update_quantity(@, o.quantity, new_quantity)]
                           ELSE [b1 EXCEPT !.asks_[o.price] =
                                    update_quantity(@, o.quantity, new_quantity)],
                  ret |-> TRUE, path |-> branch]
        ELSE [book |-> b, ret |-> TRUE, path |-> branch]

get_order_count(b) == Cardinality(DOMAIN b.order_lookup_)

\* both side indices iterate lowest key first
IterationOrder_Ascending(keys, buy) ==
    IF keys = {} THEN << >>
    ELSE LET first == CHOOSE x \in keys : \A y \in keys : x <= y
         IN  <<first>> \o IterationOrder_Ascending(keys \ {first}, buy)

\* the keys of a side index in iteration order: std::greater for bids_
\* (highest first), std::less for asks_ (lowest first)
IterationOrder(keys, buy) ==
    IF keys = {} THEN << >>
    ELSE LET first == CHOOSE x \in keys :
                         \A y \in keys : IF buy THEN x >= y ELSE x <= y
         IN  <<first>> \o IterationOrder(keys \ {first}, buy)

\* std::vector::clear
clear(out) == << >>

\* the loop of get_snapshot over one side: stop at depth, else emplace_back
SnapshotLoop(out, keys, side, count, depth) ==
    IF keys = << >> \/ count >= depth THEN out
    ELSE SnapshotLoop(Append(out, [price |-> Head(keys),
                                   total_quantity |-> side[Head(keys)].total_quantity_]),
                      Tail(keys), side, count + 1, depth)

\* one output vector of get_snapshot: cleared, then filled until depth is reached
SnapshotSide(out, side, buy, depth) ==
    SnapshotLoop(clear(out), IterationOrder(DOMAIN side, buy), side, 0, depth)

\* get_snapshot(depth, bids, asks): the two output vectors on return
get_snapshot(b, depth, bids, asks) ==
    [bids |-> SnapshotSide(bids, b.bids_, TRUE, depth),
     asks |-> SnapshotSide(asks, b.asks_, FALSE, depth)]

\* ---- the state machine ----
Init ==
    /\ bids_ = EmptyMap
    /\ asks_ = EmptyMap
    /\ order_lookup_ = EmptyMap
    /\ order_pool_ = MemoryPool
    /\ ret = FALSE
    /\ path = "init"
    /\ call = Idle

AddOrder ==
    \E id \in Ids, buy \in BOOLEAN, p \in Prices, q \in AddQuantities :
        \E r \in {add_order(Book, Order(id, buy, p, q))} :
        /\ id \in DOMAIN order_lookup_ \/ CanConstruct(order_pool_)
        /\ bids_' = r.book.bids_
        /\ asks_' = r.book.asks_
        /\ order_lookup_' = r.book.order_lookup_
        /\ order_pool_' = r.book.order_pool_
        /\ ret' = r.ret
        /\ path' = r.path
        /\ call' = call

CancelOrder ==
    \E id \in Ids :
        \E r \in {cancel_order(Book, id)} :
        /\ bids_' = r.book.bids_
        /\ asks_' = r.book.asks_
        /\ order_lookup_' = r.book.order_lookup_
        /\ order_pool_' = r.book.order_pool_
        /\ ret' = r.ret
        /\ path' = r.path
        /\ call' = call

AmendOrder ==
    \E id \in Ids, p \in Prices, q \in AmendQuantities :
        \E r \in {amend_order(Book, id, p, q)} :
        /\ bids_' = r.book.bids_
        /\ asks_' = r.book.asks_
        /\ order_lookup_' = r.book.order_lookup_
        /\ order_pool_' = r.book.order_pool_
        /\ ret' = r.ret
        /\ path' = r.path
        /\ call' = call

Next == AddOrder \/ CancelOrder \/ AmendOrder

Spec == Init /\ [][Next]_vars

\* ---- observations used by the properties ----
RECURSIVE FnSum(_, _)
FnSum(f, S) == IF S = {} THEN 0
               ELSE LET x == CHOOSE y \in S : TRUE IN f[x] + FnSum(f, S \ {x})

SideOf(b, buy) == IF buy THEN b.bids_ ELSE b.asks_
\* the live price levels of a book, as <<is_buy, price>>
LevelKeys(b) == {k \in BOOLEAN \X Prices : k[2] \in DOMAIN SideOf(b, k[1])}
Level(b, k) == SideOf(b, k[1])[k[2]]
Queue(b, k) == Level(b, k).orders_
Count(seq, x) == Cardinality({i \in DOMAIN seq : seq[i] = x})
\* the levels whose queue holds the node
Holders(b, node) == {k \in LevelKeys(b) : node \in Range(Queue(b, k))}
Live(b, node) == node \in DOMAIN b.order_pool_.mem
QueuedNodes(b) == FnSum([k \in LevelKeys(b) |-> Len(Queue(b, k))], LevelKeys(b))
\* the quantities of the nodes of a queue, in queue order
Quantities(b, k) == [i \in DOMAIN Queue(b, k) |-> NodeOrder(b, Queue(b, k)[i]).quantity]

\* C1: an id is in the order index iff its node is in exactly one price-level
\* queue, once, and that queue is on the node's own side; every queued node
\* belongs to an id of the index.
C1_IndexMatchesQueues ==
    /\ \A id \in DOMAIN order_lookup_ :
          LET node == order_lookup_[id] IN
          /\ Live(Book, node)
          /\ NodeOrder(Book, node).order_id = id
          /\ Cardinality(Holders(Book, node)) = 1
          /\ \A k \in Holders(Book, node) :
                /\ k[1] = NodeOrder(Book, node).is_buy
                /\ Count(Queue(Book, k), node) = 1
    /\ \A k \in LevelKeys(Book) : \A i \in DOMAIN Queue(Book, k) :
          \E id \in DOMAIN order_lookup_ : order_lookup_[id] = Queue(Book, k)[i]

\* two orders rest after an add, a cancel and a price-changing amend have run
C1_Witness ==
    /\ path = "amend_price"
    /\ get_order_count(Book) = 2
    /\ order_pool_.destroyed # {}

\* C2: every level's total_quantity is the exact (unbounded) sum of the
\* quantities of the nodes in its queue.
C2_TotalIsExactSum ==
    \A k \in LevelKeys(Book) :
        /\ \A i \in DOMAIN Queue(Book, k) : Live(Book, Queue(Book, k)[i])
        /\ Level(Book, k).total_quantity_ = SeqSum(Quantities(Book, k))

\* C3: no price key of bids_ or asks_ maps to an empty queue, and every entry
\* of a snapshot is the price of a level with at least one order.
C3_NoEmptyLevel ==
    /\ \A k \in LevelKeys(Book) : Len(Queue(Book, k)) >= 1
    /\ \A depth \in 0 .. MaxDepth : \A snap \in {get_snapshot(Book, depth, << >>, << >>)} :
          /\ \A i \in DOMAIN snap.bids :
                \E p \in DOMAIN bids_ :
                    p = snap.bids[i].price /\ Len(bids_[p].orders_) >= 1
          /\ \A i \in DOMAIN snap.asks :
                \E p \in DOMAIN asks_ :
                    p = snap.asks[i].price /\ Len(asks_[p].orders_) >= 1

\* a cancel has removed the last order of the last level: no level is left
C3_Witness ==
    /\ path = "cancel_done"
    /\ LevelKeys(Book) = {}
    /\ get_order_count(Book) = 0
    /\ get_snapshot(Book, MaxDepth, << >>, << >>) = [bids |-> << >>, asks |-> << >>]

\* C4: get_order_count() equals the number of nodes in all queues together.
C4_CountMatchesQueues ==
    get_order_count(Book) = QueuedNodes(Book)

\* three orders were added and one of them cancelled
C4_Witness ==
    /\ path = "cancel_done"
    /\ get_order_count(Book) = 2
    /\ QueuedNodes(Book) = 2

\* C5: the price stored in the node of every indexed id is the key of the
\* level, on the node's side, whose queue contains the node.
C5_PriceMatchesKey ==
    \A id \in DOMAIN order_lookup_ :
        LET node == order_lookup_[id] IN
        /\ Live(Book, node)
        /\ \A k \in Holders(Book, node) :
              /\ k[2] = NodeOrder(Book, node).price
              /\ k[1] = NodeOrder(Book, node).is_buy
        /\ Holders(Book, node) # {}

\* a price-changing amend has moved an order next to another one
C5_Witness ==
    /\ path = "amend_price"
    /\ \E k \in LevelKeys(Book) : Len(Queue(Book, k)) >= 2

\* the orders add_order can be handed, and the last node of a queue
Orders == {Order(id, buy, p, q) : id \in Ids, buy \in BOOLEAN, p \in Prices,
                                  q \in AddQuantities}
Last(seq) == seq[Len(seq)]

\* C6: add_order with an id already in the order index changes nothing: index,
\* side indices, queues, totals, the resting order and the pool stay as they
\* were, whatever side, price and quantity the duplicate carries.
C6_DuplicateAddIsNoOp ==
    \A o \in Orders :
        o.order_id \in DOMAIN order_lookup_ => add_order(Book, o).book = Book

\* a duplicate add has just been dropped by a book with a shared level
C6_Witness ==
    /\ path = "add_duplicate"
    /\ \E k \in LevelKeys(Book) : Len(Queue(Book, k)) >= 2

\* C7: cancel_order and amend_order return true iff the id was in the order
\* index at the call, and a call that returns false leaves the book unchanged.
C7_ReturnTellsPresence ==
    /\ \A id \in Ids :
          /\ cancel_order(Book, id).ret = (id \in DOMAIN order_lookup_)
          /\ ~cancel_order(Book, id).ret => cancel_order(Book, id).book = Book
          /\ \A p \in Prices, q \in AmendQuantities :
                /\ amend_order(Book, id, p, q).ret = (id \in DOMAIN order_lookup_)
                /\ ~amend_order(Book, id, p, q).ret
                      => amend_order(Book, id, p, q).book = Book
    /\ path \in {"cancel_notfound", "amend_notfound"} => ret = FALSE
    /\ path \in {"cancel_done", "amend_price", "amend_quantity", "amend_nochange"}
          => ret = TRUE

\* an amend of an id that is not resting has returned false on a non-empty book
C7_Witness ==
    /\ path = "amend_notfound"
    /\ ret = FALSE
    /\ get_order_count(Book) >= 1

\* C8: amending only the quantity of a resting order leaves every queue's
\* node sequence as it was; the order's quantity becomes the new one and
\* nothing else changes but the total of its own level.
C8_QuantityAmendKeepsPriority ==
    \A id \in DOMAIN order_lookup_ : \A q \in AmendQuantities :
        LET node == order_lookup_[id]
            o == NodeOrder(Book, node)
            r == amend_order(Book, id, o.price, q)
        IN  /\ r.ret = TRUE
            /\ LevelKeys(r.book) = LevelKeys(Book)
            /\ \A k \in LevelKeys(Book) :
                  /\ k \in LevelKeys(r.book)
                  /\ Queue(r.book, k) = Queue(Book, k)
                  /\ k # <<o.is_buy, o.price>> => Level(r.book, k) = Level(Book, k)
            /\ r.book.order_lookup_ = order_lookup_
            /\ r.book.order_pool_ =
                  [order_pool_ EXCEPT !.mem[node].order.quantity = q]

\* a quantity-only amend has acted in a book whose orders all share one level
C8_Witness ==
    /\ path = "amend_quantity"
    /\ Cardinality(LevelKeys(Book)) = 1
    /\ \A k \in LevelKeys(Book) : Len(Queue(Book, k)) >= 2

\* C9: after a price-changing amend the order is the last node of the queue
\* at the new price on its old side and in no other queue, carries the new
\* price and quantity, keeps its handle, and get_order_count() is unchanged.
C9_PriceAmendGoesLast ==
    \A id \in DOMAIN order_lookup_ : \A p \in Prices, q \in AmendQuantities :
        LET node == order_lookup_[id]
            o == NodeOrder(Book, node)
            r == amend_order(Book, id, p, q)
            to == <<o.is_buy, p>>
        IN  p # o.price =>
            /\ r.ret = TRUE
            /\ r.book.order_lookup_ = order_lookup_
            /\ get_order_count(r.book) = get_order_count(Book)
            /\ Holders(r.book, node) = {to}
            /\ to \in LevelKeys(r.book)
            /\ Count(Queue(r.book, to), node) = 1
            /\ Last(Queue(r.book, to)) = node
            /\ NodeOrder(r.book, node) = [o EXCEPT !.price = p, !.quantity = q]

\* a price-changing amend has put an older node behind a newer one
C9_Witness ==
    /\ path = "amend_price"
    /\ \E k \in LevelKeys(Book) :
          /\ Len(Queue(Book, k)) >= 2
          /\ Last(Queue(Book, k)) < Queue(Book, k)[Len(Queue(Book, k)) - 1]

\* the nodes a step places: the node it constructs or the node it re-prices
PlacedNow ==
    {n \in DOMAIN order_pool_'.mem :
        \/ n \notin DOMAIN order_pool_.mem
        \/ order_pool_.mem[n].order.price # order_pool_'.mem[n].order.price}

\* Before(seq, x, y): x and y are in seq and x is not behind y
Before(seq, x, y) ==
    \E i \in DOMAIN seq : \E j \in i .. Len(seq) : seq[i] = x /\ seq[j] = y

\* one side index over a step: a placed node is last in its queue, the nodes
\* ahead of any other node were ahead of it in the same level before the step
SideKeepsArrivalOrder(old, new, placed) ==
    \A p \in DOMAIN new : \A Q \in {new[p].orders_} : \A j \in DOMAIN Q :
        IF Q[j] \in placed
        THEN j = Len(Q)
        ELSE /\ p \in DOMAIN old
             /\ \A i \in 1 .. j : Before(old[p].orders_, Q[i], Q[j])

C10_Step ==
    \A placed \in {PlacedNow} :
        /\ path' \in {"add_accepted", "amend_price"} => placed # {}
        /\ \A n \in placed :
              \/ \E p \in DOMAIN bids_' : n \in Range(bids_'[p].orders_)
              \/ \E p \in DOMAIN asks_' : n \in Range(asks_'[p].orders_)
        /\ SideKeepsArrivalOrder(bids_, bids_', placed)
        /\ SideKeepsArrivalOrder(asks_, asks_', placed)

\* C10: every level's queue is in arrival order: each placement (an accepted
\* add_order, a price-changing amend_order) puts the order last in its level,
\* and no operation changes the relative order of two orders that were placed
\* in the level earlier.
C10_ArrivalOrder == [][C10_Step]_vars

\* an add has queued behind two orders of which the older was re-placed
C10_Witness ==
    /\ path = "add_accepted"
    /\ \E k \in LevelKeys(Book) :
          /\ Len(Queue(Book, k)) = 3
          /\ Queue(Book, k)[1] > Queue(Book, k)[2]
          /\ Queue(Book, k)[3] > Queue(Book, k)[1]

\* output vectors a caller may pass to get_snapshot: empty or used before
UsedVectors == {<< >>, <<[price |-> MaxPrice, total_quantity |-> 1]>>}
Min(x, y) == IF x < y THEN x ELSE y

\* one side of a snapshot: min(depth, levels) entries, the best levels in
\* best-first order without repetition, each with its level's total
SnapshotSideRight(out, side, buy, depth) ==
    /\ Len(out) = Min(depth, Cardinality(DOMAIN side))
    /\ \A i \in DOMAIN out :
          /\ out[i].price \in DOMAIN side
          /\ out[i].total_quantity = side[out[i].price].total_quantity_
          /\ \A j \in DOMAIN out :
                i < j => IF buy THEN out[i].price > out[j].price
                                ELSE out[i].price < out[j].price
          /\ \A p \in DOMAIN side :
                (\A j \in DOMAIN out : out[j].price # p)
                    => IF buy THEN p < out[i].price ELSE p > out[i].price

\* C11: get_snapshot returns for each side exactly min(depth, live levels)
\* entries, the best levels best-first (bids strictly descending, asks
\* strictly ascending), each with the level's price and total_quantity; what
\* the output vectors held before is discarded and depth 0 gives two empty
\* vectors.
C11_SnapshotBestFirst ==
    \A depth \in 0 .. MaxDepth : \A bids \in UsedVectors, asks \in UsedVectors :
        \A snap \in {get_snapshot(Book, depth, bids, asks)} :
            /\ SnapshotSideRight(snap.bids, bids_, TRUE, depth)
            /\ SnapshotSideRight(snap.asks, asks_, FALSE, depth)
            /\ depth = 0 => snap = [bids |-> << >>, asks |-> << >>]

\* two bid levels and one ask level rest; depth 1 returns the best of each
\* into vectors that were used before
C11_Witness ==
    /\ Cardinality(DOMAIN bids_) = 2
    /\ Cardinality(DOMAIN asks_) = 1
    /\ \E u \in UsedVectors : \E snap \in {get_snapshot(Book, 1, u, u)} :
          /\ u # << >>
          /\ Len(snap.bids) = 1
          /\ snap.bids[1].price = MaxPrice
          /\ Len(snap.asks) = 1

\* the book without the pool's own bookkeeping: the order index, both side
\* indices with their queues and totals, and the resting nodes
Resting(b) == [bids_ |-> b.bids_, asks_ |-> b.asks_,
               order_lookup_ |-> b.order_lookup_, nodes |-> b.order_pool_.mem]

\* the book after add_order(o) followed by cancel_order(o.order_id)
RoundTrip(b, o) == cancel_order(add_order(b, o).book, o.order_id)

\* C12 as stated: for every order o, add_order(o) then cancel_order(o.order_id)
\* gives back the book as it was before the add (pool bookkeeping excepted).
C12_RoundTripAnyOrder ==
    \A o \in Orders : Resting(RoundTrip(Book, o).book) = Resting(Book)

\* C12 as amended: for every order o whose id is not in the order index,
\* add_order(o) then cancel_order(o.order_id) returns true and gives back the
\* book as it was before the add (pool bookkeeping excepted).
C12_RoundTripOfNewOrder ==
    \A o \in Orders :
        o.order_id \notin DOMAIN order_lookup_ =>
            /\ RoundTrip(Book, o).ret = TRUE
            /\ Resting(RoundTrip(Book, o).book) = Resting(Book)

\* the order constructed last has been cancelled and two older ones rest
C12_Witness ==
    /\ path = "cancel_done"
    /\ Constructed(order_pool_) - 1 \in order_pool_.destroyed
    /\ get_order_count(Book) = 2

\* ---- add_order cut short by std::bad_alloc ----
\* the allocations of add_order: the pool's new block, the map node of a new
\* price level, the list node of the queue, the node of the order index
ThrowPoints == {"throw_pool", "throw_level", "throw_queue", "throw_index"}

\* add_order(o) reaches the allocation `at`
Allocates(b, o, at) ==
    /\ o.order_id \notin DOMAIN b.order_lookup_
    /\ CASE at = "throw_pool" -> b.order_pool_.current_slot_ >= BlockSize
         [] at = "throw_level" ->
                o.price \notin DOMAIN (IF o.is_buy THEN b.bids_ ELSE b.asks_)
         [] OTHER -> TRUE

\* operator[] has created the level, push_back has not linked the node
LevelCreated(b, o) ==
    IF o.is_buy
    THEN [b EXCEPT !.bids_ = MapPut(@, o.price, LevelAt(@, o.price))]
    ELSE [b EXCEPT !.asks_ = MapPut(@, o.price, LevelAt(@, o.price))]

\* the book that add_order(o) leaves behind when the allocation `at` throws
add_order_throws(b, o, at) ==
    LET c == construct(b.order_pool_, o)
        b1 == [b EXCEPT !.order_pool_ = c.pool]
    IN  CASE at = "throw_pool" -> b
          [] at = "throw_level" -> b1
          [] at = "throw_queue" -> LevelCreated(b1, o)
          [] at = "throw_index" -> add_to_side(b1, c.ptr)

Thrown == path \in ThrowPoints

AddOrderThrows ==
    \E id \in Ids, buy \in BOOLEAN, p \in Prices, q \in AddQuantities, at \in ThrowPoints :
        \E r \in {add_order_throws(Book, Order(id, buy, p, q), at)} :
        /\ ~Thrown
        /\ CanConstruct(order_pool_)
        /\ Allocates(Book, Order(id, buy, p, q), at)
        /\ bids_' = r.bids_
        /\ asks_' = r.asks_
        /\ order_lookup_' = r.order_lookup_
        /\ order_pool_' = r.order_pool_
        /\ ret' = ret
        /\ path' = at
        /\ call' = call

\* the exception is fatal: nothing is called on the book after it
NextOOM ==
    \/ ~Thrown /\ AddOrder
    \/ ~Thrown /\ CancelOrder
    \/ ~Thrown /\ AmendOrder
    \/ AddOrderThrows

SpecOOM == Init /\ [][NextOOM]_vars

\* C13: when an allocation of add_order throws, the order index and both side
\* indices are left as they were before the call.
C13_ThrowLeavesBookAsBefore ==
    [][Thrown' => /\ bids_' = bids_
                  /\ asks_' = asks_
                  /\ order_lookup_' = order_lookup_]_vars

\* C14: the slot released by cancel_order is reusable: an add_order that follows
\* the cancel_order of a live order is handed a released slot, so the two calls
\* together consume no further pool slot.
C14_ReleasedSlotIsReused ==
    \A id \in DOMAIN order_lookup_ : \A o \in Orders :
        \A c \in {cancel_order(Book, id).book} :
            o.order_id \notin DOMAIN c.order_lookup_ =>
                /\ construct(c.order_pool_, o).ptr \in c.order_pool_.destroyed
                /\ Constructed(add_order(c, o).book.order_pool_) = Constructed(order_pool_)

\* C15: across every call the handle stored in the order index for an id that
\* stays live is unchanged, and no two live ids are stored with the same handle.
C15_HandlesStableAndExclusive ==
    [][/\ \A id \in DOMAIN order_lookup_ \cap DOMAIN order_lookup_' :
              order_lookup_'[id] = order_lookup_[id]
       /\ \A i, j \in DOMAIN order_lookup_' :
              i # j => order_lookup_'[i] # order_lookup_'[j]]_vars

\* an order has just been moved to another price, a second one rests under
\* another handle and a third has been cancelled earlier
C15_Witness ==
    /\ path = "amend_price"
    /\ order_pool_.destroyed # {}
    /\ \E i, j \in DOMAIN order_lookup_ : order_lookup_[i] < order_lookup_[j]

\* the entries of a snapshot vector that report the price p
EntriesAt(vector, p) == {i \in DOMAIN vector : vector[i].price = p}

\* C16: amend_order(id, p, 0) on a live order returns true, keeps the id in the
\* order index and the order count, leaves the node in one queue (its own queue,
\* untouched, when p is its price; the tail of the queue at p otherwise), and the
\* level at p stays in the side index and is reported by the snapshot.
C16_ZeroQuantityAmendKeepsOrder ==
    \A id \in DOMAIN order_lookup_ : \A p \in Prices :
        \A r \in {amend_order(Book, id, p, 0)} :
            LET node == order_lookup_[id]
                o == NodeOrder(Book, node)
                k == <<o.is_buy, p>>
                snap == get_snapshot(r.book, MaxDepth, << >>, << >>)
                vector == IF o.is_buy THEN snap.bids ELSE snap.asks
            IN  /\ r.ret = TRUE
                /\ id \in DOMAIN r.book.order_lookup_
                /\ r.book.order_lookup_[id] = node
                /\ get_order_count(r.book) = get_order_count(Book)
                /\ NodeOrder(r.book, node).quantity = 0
                /\ Holders(r.book, node) = {k}
                /\ Count(Queue(r.book, k), node) = 1
                /\ IF p = o.price THEN Queue(r.book, k) = Queue(Book, k)
                                  ELSE Last(Queue(r.book, k)) = node
                /\ \E i \in EntriesAt(vector, p) :
                       vector[i].total_quantity = Level(r.book, k).total_quantity_

\* a quantity amend has just left a level whose only order has quantity 0:
\* the level is in the side index with total_quantity 0
C16_Witness ==
    /\ path = "amend_quantity"
    /\ \E k \in LevelKeys(Book) :
          /\ Quantities(Book, k) = <<0>>
          /\ Level(Book, k).total_quantity_ = 0

\* the resting orders of a level, in queue order
OrdersAt(b, k) == [i \in DOMAIN Queue(b, k) |-> NodeOrder(b, Queue(b, k)[i])]

\* C17: cancel_order of a live id returns true and lowers the order count by
\* one; the order's level disappears when it held only that order, otherwise
\* its total_quantity is lower by exactly the order's quantity and its other
\* orders keep their order and quantities; every other level of both sides is
\* unchanged; cancelling the same id again returns false.
C17_CancelRemovesExactlyThatOrder ==
    \A id \in DOMAIN order_lookup_ :
        \A r \in {cancel_order(Book, id)} :
            LET node == order_lookup_[id]
                o == NodeOrder(Book, node)
                k == <<o.is_buy, o.price>>
            IN  /\ r.ret = TRUE
                /\ get_order_count(r.book) = get_order_count(Book) - 1
                /\ IF Len(Queue(Book, k)) = 1
                   THEN LevelKeys(r.book) = LevelKeys(Book) \ {k}
                   ELSE /\ LevelKeys(r.book) = LevelKeys(Book)
                        /\ Level(r.book, k).total_quantity_ =
                               Level(Book, k).total_quantity_ - o.quantity
                        /\ Queue(r.book, k) =
                               SelectSeq(Queue(Book, k), LAMBDA n : n # node)
                        /\ \A n \in Range(Queue(r.book, k)) :
                               NodeOrder(r.book, n) = NodeOrder(Book, n)
                /\ \A k2 \in LevelKeys(Book) \ {k} :
                       /\ Level(r.book, k2) = Level(Book, k2)
                       /\ OrdersAt(r.book, k2) = OrdersAt(Book, k2)
                /\ cancel_order(r.book, id).ret = FALSE

\* ---- the operations taken one internal step at a time ----
\* the four members of the book become those of b
Becomes(b) ==
    /\ bids_' = b.bids_
    /\ asks_' = b.asks_
    /\ order_lookup_' = b.order_lookup_
    /\ order_pool_' = b.order_pool_

\* the node is destroyed while the index still holds its id
cancel_order_step_DestroyBeforeErase(b, order_id, node, step) ==
    CASE step = 1 -> remove_from_side(b, node)
      [] step = 2 -> [b EXCEPT !.order_pool_ = destroy(@, node)]
      [] step = 3 -> [b EXCEPT !.order_lookup_ = MapErase(@, order_id)]

\* the statements of cancel_order after a successful find, in program order
cancel_order_step(b, order_id, node, step) ==
    CASE step = 1 -> remove_from_side(b, node)
      [] step = 2 -> [b EXCEPT !.order_lookup_ = MapErase(@, order_id)]
      [] step = 3 -> [b EXCEPT !.order_pool_ = destroy(@, node)]

AddDuplicate ==
    \E id \in Ids :
        /\ call = Idle
        /\ id \in DOMAIN order_lookup_
        /\ ret' = FALSE
        /\ path' = "add_duplicate"
        /\ UNCHANGED <<bids_, asks_, order_lookup_, order_pool_, call>>

AddConstruct ==
    \E id \in Ids, buy \in BOOLEAN, p \in Prices, q \in AddQuantities :
        \E c \in {construct(order_pool_, Order(id, buy, p, q))} :
        /\ call = Idle
        /\ id \notin DOMAIN order_lookup_
        /\ Constructed(order_pool_) < MaxStepOrders
        /\ order_pool_' = c.pool
        /\ call' = [pc |-> "add_constructed", node |-> c.ptr]
        /\ UNCHANGED <<bids_, asks_, order_lookup_, ret, path>>

AddToSide ==
    /\ call.pc = "add_constructed"
    /\ Becomes(add_to_side(Book, call.node))
    /\ call' = [pc |-> "add_queued", node |-> call.node]
    /\ UNCHANGED <<ret, path>>

AddIndex ==
    /\ call.pc = "add_queued"
    /\ order_lookup_' = MapPut(order_lookup_, NodeOrder(Book, call.node).order_id, call.node)
    /\ call' = Idle
    /\ ret' = FALSE
    /\ path' = "add_accepted"
    /\ UNCHANGED <<bids_, asks_, order_pool_>>

CancelNotFound ==
    \E id \in Ids :
        /\ call = Idle
        /\ id \notin DOMAIN order_lookup_
        /\ ret' = FALSE
        /\ path' = "cancel_notfound"
        /\ UNCHANGED <<bids_, asks_, order_lookup_, order_pool_, call>>

CancelUnlink ==
    \E id \in Ids :
        /\ call = Idle
        /\ id \in DOMAIN order_lookup_
        /\ Becomes(cancel_order_step(Book, id, order_lookup_[id], 1))
        /\ call' = [pc |-> "cancel_unlinked", id |-> id, node |-> order_lookup_[id]]
        /\ UNCHANGED <<ret, path>>

CancelErase ==
    /\ call.pc = "cancel_unlinked"
    /\ Becomes(cancel_order_step(Book, call.id, call.node, 2))
    /\ call' = [call EXCEPT !.pc = "cancel_erased"]
    /\ UNCHANGED <<ret, path>>

CancelDestroy ==
    /\ call.pc = "cancel_erased"
    /\ Becomes(cancel_order_step(Book, call.id, call.node, 3))
    /\ call' = Idle
    /\ ret' = TRUE
    /\ path' = "cancel_done"

AmendReturns ==
    \E id \in Ids, p \in Prices, q \in AmendQuantities :
        \E branch \in {AmendPath(Book, id, p, q)} :
        /\ call = Idle
        /\ branch \in {"amend_notfound", "amend_nochange"}
        /\ ret' = (branch # "amend_notfound")
        /\ path' = branch
        /\ UNCHANGED <<bids_, asks_, order_lookup_, order_pool_, call>>

AmendUnlink ==
    \E id \in Ids, p \in Prices, q \in AmendQuantities :
        /\ call = Idle
        /\ AmendPath(Book, id, p, q) = "amend_price"
        /\ Becomes(remove_from_side(Book, order_lookup_[id]))
        /\ call' = [pc |-> "amend_unlinked", node |-> order_lookup_[id],
                    new_price |-> p, new_quantity |-> q]
        /\ UNCHANGED <<ret, path>>

AmendWrite ==
    /\ call.pc = "amend_unlinked"
    /\ Becomes(SetOrder(Book, call.node, call.new_price, call.new_quantity))
    /\ call' = [pc |-> "amend_written", node |-> call.node]
    /\ UNCHANGED <<ret, path>>

AmendRelink ==
    /\ call.pc = "amend_written"
    /\ Becomes(add_to_side(Book, call.node))
    /\ call' = Idle
    /\ ret' = TRUE
    /\ path' = "amend_price"

AmendQuantityWrite ==
    \E id \in Ids, p \in Prices, q \in AmendQuantities :
        /\ call = Idle
        /\ AmendPath(Book, id, p, q) = "amend_quantity"
        /\ Becomes(SetOrder(Book, order_lookup_[id], p, q))
        /\ call' = [pc |-> "amend_quantity_written", node |-> order_lookup_[id],
                    old_qty |-> NodeOrder(Book, order_lookup_[id]).quantity,
                    new_quantity |-> q]
        /\ UNCHANGED <<ret, path>>

AmendUpdateQuantity ==
    /\ call.pc = "amend_quantity_written"
    /\ \E o \in {NodeOrder(Book, call.node)} :
          IF o.is_buy
          THEN /\ bids_' = [bids_ EXCEPT ![o.price] =
                                update_quantity(@, call.old_qty, call.new_quantity)]
               /\ asks_' = asks_
          ELSE /\ asks_' = [asks_ EXCEPT ![o.price] =
                                update_quantity(@, call.old_qty, call.new_quantity)]
               /\ bids_' = bids_
    /\ call' = Idle
    /\ ret' = TRUE
    /\ path' = "amend_quantity"
    /\ UNCHANGED <<order_lookup_, order_pool_>>

NextSteps ==
    \/ AddDuplicate \/ AddConstruct \/ AddToSide \/ AddIndex
    \/ CancelNotFound \/ CancelUnlink \/ CancelErase \/ CancelDestroy
    \/ AmendReturns \/ AmendUnlink \/ AmendWrite \/ AmendRelink
    \/ AmendQuantityWrite \/ AmendUpdateQuantity

SpecSteps == Init /\ [][NextSteps]_vars

\* the node has been released to the pool
Released(b, node) == node \in b.order_pool_.destroyed \/ node \notin DOMAIN b.order_pool_.mem

\* C18: in every state, between or inside the operations, no id of the order
\* index and no price-level queue holds a released node; when cancel_order is
\* about to destroy the node, its id is out of the index and it is in no queue.
C18_NoDanglingHandle ==
    /\ \A id \in DOMAIN order_lookup_ : ~Released(Book, order_lookup_[id])
    /\ \A k \in LevelKeys(Book) : \A n \in Range(Queue(Book, k)) : ~Released(Book, n)
    /\ call.pc = "cancel_erased" =>
          /\ call.id \notin DOMAIN order_lookup_
          /\ Holders(Book, call.node) = {}
          /\ ~Released(Book, call.node)

\* cancel_order stands before its destroy while another order rests
C18_Witness ==
    /\ call.pc = "cancel_erased"
    /\ get_order_count(Book) = 1

\* the queue of a level, empty when the level is not in its side index
QueueOrEmpty(b, k) == IF k \in LevelKeys(b) THEN Queue(b, k) ELSE << >>

\* every resting order but that of `id` is in b2 as it is in b: same handle,
\* same order record, and each queue without the node of `id` reads the same
OthersUntouched(b, b2, id) ==
    \A acting \in {{b.order_lookup_[i] : i \in DOMAIN b.order_lookup_ \cap {id}}
                    \cup {b2.order_lookup_[i] : i \in DOMAIN b2.order_lookup_ \cap {id}}} :
        /\ \A i \in DOMAIN b.order_lookup_ \ {id} :
              /\ i \in DOMAIN b2.order_lookup_
              /\ b2.order_lookup_[i] = b.order_lookup_[i]
              /\ NodeOrder(b2, b.order_lookup_[i]) = NodeOrder(b, b.order_lookup_[i])
        /\ \A k \in BOOLEAN \X Prices :
              SelectSeq(QueueOrEmpty(b2, k), LAMBDA n : n \notin acting)
                  = SelectSeq(QueueOrEmpty(b, k), LAMBDA n : n \notin acting)

\* the order of `id` rests in b at its level, and the snapshot reports every
\* level that holds an order
RestsAndShown(b, id) ==
    /\ id \in DOMAIN b.order_lookup_
    /\ \A o \in {NodeOrder(b, b.order_lookup_[id])} :
          /\ <<o.is_buy, o.price>> \in LevelKeys(b)
          /\ b.order_lookup_[id] \in Range(Queue(b, <<o.is_buy, o.price>>))
    /\ \A snap \in {get_snapshot(b, MaxDepth, << >>, << >>)} :
          \A i \in DOMAIN b.order_lookup_ :
              \A o \in {NodeOrder(b, b.order_lookup_[i])} :
                  EntriesAt(IF o.is_buy THEN snap.bids ELSE snap.asks, o.price) # {}

\* C19: add_order and amend_order leave every other resting order as it was
\* (in the index, same quantity, price, side and place among the others of its
\* queue), whatever the prices on the opposite side; the incoming or amended
\* order rests and every level holding an order is in the snapshot.
C19_NeverMatches ==
    /\ \A o \in Orders :
          \A r \in {add_order(Book, o)} :
              /\ OthersUntouched(Book, r.book, o.order_id)
              /\ RestsAndShown(r.book, o.order_id)
    /\ \A id \in DOMAIN order_lookup_ : \A p \in Prices : \A q \in AmendQuantities :
          \A r \in {amend_order(Book, id, p, q)} :
              /\ OthersUntouched(Book, r.book, id)
              /\ RestsAndShown(r.book, id)

\* the order added last is a buy priced at or above a resting sell, or a sell
\* priced at or below a resting buy, and all of them rest
C19_Witness ==
    /\ path = "add_accepted"
    /\ \E id \in DOMAIN order_lookup_ :
          /\ order_lookup_[id] = Constructed(order_pool_) - 1
          /\ \E o \in {NodeOrder(Book, order_lookup_[id])} :
                IF o.is_buy THEN \E pa \in DOMAIN asks_ : o.price >= pa
                            ELSE \E pb \in DOMAIN bids_ : o.price <= pb
    /\ get_order_count(Book) = 3

\* the level an order of that side and price is filed under
LevelOf(b, buy, p) == LevelAt(SideOf(b, buy), p)

\* C20: no call makes the arithmetic on a level's total_quantity wrap: an
\* add never takes the total beyond 2^w - 1, and remove_order and
\* update_quantity never subtract more than the total.
C20_TotalNeverWraps ==
    /\ \A o \in Orders :
          o.order_id \notin DOMAIN order_lookup_ =>
              LevelOf(Book, o.is_buy, o.price).total_quantity_ + o.quantity <= Modulus - 1
    /\ \A id \in DOMAIN order_lookup_ :
          \A o \in {NodeOrder(Book, order_lookup_[id])} :
              \A total \in {LevelOf(Book, o.is_buy, o.price).total_quantity_} :
                  /\ o.quantity <= total
                  /\ \A q \in AmendQuantities : total - o.quantity + q <= Modulus - 1
                  /\ \A p \in Prices \ {o.price} : \A q \in AmendQuantities :
                        LevelOf(Book, o.is_buy, p).total_quantity_ + q <= Modulus - 1

====
